---- MODULE Spec2Model ----
(***************************************************************************)
(* A model of the CycleTLS-Proxy Python client (examples/python.py):       *)
(* CycleTLSClient.request with the urllib3 Retry policy mounted in its     *)
(* constructor, AsyncCycleTLSClient.request, and the two batch dispatchers *)
(* run_concurrent_examples (thread pool) and run_async_examples (gather).  *)
(***************************************************************************)
EXTENDS Integers, Sequences, FiniteSets, TLC

VARIABLES
    client,             \* which client handles the current request: "none", "sync", "async"
    method,             \* the HTTP method of the current request
    pc,                 \* "idle", "sending" (inside session.request), "done"
    config,             \* the ProxyConfig built by request()
    extra,              \* the caller's headers= argument
    wire,               \* proxy_headers handed to the transport
    transport_timeout,  \* timeout= handed to the transport
    total,              \* urllib3 Retry.total still left for this request
    attempts,           \* transport attempts the proxy has seen for this request
    last,               \* what the last transport attempt ended in
    all_status,         \* every attempt so far was answered with a status of the forcelist
    outcome,            \* what request() gave its caller
    aio_session,        \* AsyncCycleTLSClient.session: "none", "open", "closed"
    tstate,             \* thread pool: state of each submitted future
    tresult,            \* thread pool: what make_request(i) returned
    results,            \* thread pool: the list built from as_completed
    printed,            \* thread pool: sorted(results), the sequence that is reported
    bphase,             \* where main() is in the two batch examples
    ustate,             \* gather: state of each unit of work
    uoutcome,           \* gather: what each unit ended in
    aorder,             \* gather: the units in the order they finished
    gather,             \* gather: state of the awaited gather future
    responses,          \* gather: the list assigned from await asyncio.gather
    timeout_arg,        \* the caller's timeout= argument of the current request
    handle,             \* SessionContext.session_id of the open handle, None without one
    op,                 \* the public operation in progress: "request", "session", "health", "profiles"
    profiles            \* what get_available_profiles returned

reqvars == <<client, method, pc, config, extra, wire, transport_timeout, total, attempts,
             last, all_status, outcome, aio_session, timeout_arg>>
auxvars == <<handle, op, profiles>>
batchvars == <<tstate, tresult, results, printed, bphase, ustate, uoutcome, aorder,
               gather, responses>>
vars == <<reqvars, batchvars, auxvars>>

----------------------------------------------------------------------------
(* Values *)

\* Python's None for an optional string argument.
None == "None"

\* Python's None / a value for an Optional[int] argument.
NoneInt == [some |-> FALSE, v |-> 0]
SomeInt(n) == [some |-> TRUE, v |-> n]

\* An empty or absent dict: `if extra_headers:` treats both alike.
NoHeaders == [h \in {} |-> ""]

\* The values of the BrowserProfile enumeration.
BrowserProfile ==
    {"chrome", "chrome_windows", "firefox", "firefox_windows", "safari",
     "safari_ios", "edge", "okhttp", "chrome_legacy_tls12"}

\* BrowserProfile.<MEMBER>.value
BrowserProfileValue(member) ==
    CASE member = "CHROME" -> "chrome"
      [] member = "CHROME_WINDOWS" -> "chrome_windows"
      [] member = "FIREFOX" -> "firefox"
      [] member = "FIREFOX_WINDOWS" -> "firefox_windows"
      [] member = "SAFARI" -> "safari"
      [] member = "SAFARI_IOS" -> "safari_ios"
      [] member = "EDGE" -> "edge"
      [] member = "OKHTTP" -> "okhttp"
      [] member = "CHROME_LEGACY_TLS12" -> "chrome_legacy_tls12"

\* The constructor defaults of CycleTLSClient / AsyncCycleTLSClient.
DefaultTimeout == 30
MaxRetries == 3
\* The buffer request() adds to the declared timeout.
TimeoutBuffer == 5

\* The verb shorthands of the client.
Methods == {"GET", "POST", "PUT", "PATCH", "DELETE", "HEAD"}

\* A profile argument is an enumeration member or a plain string.
EnumProfile(m) == [tag |-> "enum", v |-> m]
StrProfile(s) == [tag |-> "str", v |-> s]

----------------------------------------------------------------------------
(* Inputs the model draws from *)

UrlInputs == {"", "https://httpbin.org/get"}
ProfileInputs ==
    {EnumProfile("CHROME"), StrProfile("firefox"), StrProfile("invalid-profile-test")}
TimeoutInputs == {NoneInt, SomeInt(0), SomeInt(-1), SomeInt(10), SomeInt(30)}
SessionInputs == {None, "concurrent-1"}
HeaderInputs ==
    {NoHeaders,
     [h \in {"X-URL"} |-> "https://evil.example/"],
     [h \in {"X-IDENTIFIER"} |-> "safari"],
     [h \in {"Authorization"} |-> "Bearer fake-jwt-token"],
     [h \in {"X-TIMEOUT"} |-> "99"]}

\* What one transport attempt can end in: a response of the proxy, or one of
\* the transport's errors.
Response(status, invalid, timeout, retry_after) ==
    [kind |-> "response", status |-> status, invalid_marker |-> invalid,
     timeout_marker |-> timeout, retry_after |-> retry_after]
TransportError(kind) ==
    [kind |-> kind, status |-> 0, invalid_marker |-> FALSE,
     timeout_marker |-> FALSE, retry_after |-> FALSE]
NoResult == TransportError("none")

ProxyResponses ==
    {Response(200, FALSE, FALSE, FALSE),
     Response(304, FALSE, FALSE, FALSE),
     Response(400, TRUE, FALSE, FALSE),
     Response(400, TRUE, TRUE, FALSE),
     Response(400, FALSE, TRUE, FALSE),
     Response(400, FALSE, FALSE, FALSE),
     Response(404, FALSE, FALSE, FALSE),
     Response(413, FALSE, FALSE, TRUE),
     Response(429, FALSE, FALSE, FALSE),
     Response(500, FALSE, FALSE, FALSE),
     Response(502, FALSE, FALSE, FALSE),
     Response(503, FALSE, FALSE, FALSE),
     Response(504, FALSE, FALSE, FALSE)}
TransportErrors ==
    {TransportError("ConnectTimeoutError"), TransportError("NewConnectionError"),
     TransportError("ReadTimeoutError"), TransportError("ProtocolError")}
ProxyResults == ProxyResponses \cup TransportErrors

----------------------------------------------------------------------------
(* ProxyConfig and the request builder *)

\* ProxyConfig.__post_init__: an enumeration member becomes its value, a
\* string is kept as it is.
PostInit(profile) ==
    IF profile.tag = "enum" THEN BrowserProfileValue(profile.v) ELSE profile.v

\* `timeout or self.default_timeout`: None and 0 are falsy.
TimeoutOr(timeout, default) ==
    IF timeout.some /\ timeout.v # 0 THEN timeout.v ELSE default

ProxyConfig(url, profile, session_id, timeout, default) ==
    [url |-> url, profile |-> PostInit(profile), session_id |-> session_id,
     upstream_proxy |-> None, timeout |-> TimeoutOr(timeout, default)]

\* Python truthiness of an optional string.
Truthy(s) == s # None /\ s # ""

\* str() of an integer.
Digit(n) ==
    CASE n = 0 -> "0" [] n = 1 -> "1" [] n = 2 -> "2" [] n = 3 -> "3" [] n = 4 -> "4"
      [] n = 5 -> "5" [] n = 6 -> "6" [] n = 7 -> "7" [] n = 8 -> "8" [] n = 9 -> "9"
RECURSIVE Str(_)
Str(n) ==
    IF n < 0 THEN "-" \o Str(-n)
    ELSE IF n < 10 THEN Digit(n)
    ELSE Str(n \div 10) \o Digit(n % 10)

\* headers[k] = v
DictSet(d, k, v) == [h \in DOMAIN d \cup {k} |-> IF h = k THEN v ELSE d[h]]
\* headers.update(e)
DictUpdate(d, e) == [h \in DOMAIN d \cup DOMAIN e |-> IF h \in DOMAIN e THEN e[h] ELSE d[h]]

\* CycleTLSClient._make_headers
MakeHeaders(cfg, default_timeout, extra_headers) ==
    LET h0 == [h \in {"X-URL", "X-IDENTIFIER"} |->
                  IF h = "X-URL" THEN cfg.url ELSE cfg.profile]
        h1 == IF Truthy(cfg.session_id) THEN DictSet(h0, "X-SESSION-ID", cfg.session_id) ELSE h0
        h2 == IF Truthy(cfg.upstream_proxy) THEN DictSet(h1, "X-PROXY", cfg.upstream_proxy) ELSE h1
        h3 == IF cfg.timeout # default_timeout
              THEN DictSet(h2, "X-TIMEOUT", Str(cfg.timeout)) ELSE h2
    IN  IF DOMAIN extra_headers # {} THEN DictUpdate(h3, extra_headers) ELSE h3

\* AsyncCycleTLSClient._make_headers
AsyncMakeHeaders(cfg, default_timeout, extra_headers) ==
    LET h0 == [h \in {"X-URL", "X-IDENTIFIER"} |->
                  IF h = "X-URL" THEN cfg.url ELSE cfg.profile]
        h1 == IF Truthy(cfg.session_id) THEN DictSet(h0, "X-SESSION-ID", cfg.session_id) ELSE h0
        h2 == IF Truthy(cfg.upstream_proxy) THEN DictSet(h1, "X-PROXY", cfg.upstream_proxy) ELSE h1
        h3 == IF cfg.timeout # default_timeout
              THEN DictSet(h2, "X-TIMEOUT", Str(cfg.timeout)) ELSE h2
    IN  IF DOMAIN extra_headers # {} THEN DictUpdate(h3, extra_headers) ELSE h3

----------------------------------------------------------------------------
(* The retry policy mounted on the session: Retry(total=max_retries,        *)
(* backoff_factor=1, status_forcelist=[429, 500, 502, 503, 504]), every     *)
(* other parameter at urllib3's default.                                    *)

StatusForcelist == {429, 500, 502, 503, 504}
\* Retry.DEFAULT_ALLOWED_METHODS, in force because allowed_methods is not given.
DefaultAllowedMethods == {"HEAD", "GET", "PUT", "DELETE", "OPTIONS", "TRACE"}
\* Retry.RETRY_AFTER_STATUS_CODES, in force because respect_retry_after_header is not given.
RetryAfterStatusCodes == {413, 429, 503}

\* A policy built with allowed_methods=None: every verb is retried.
AnyMethodRetryable(m) == TRUE

IsMethodRetryable(m) == m \in DefaultAllowedMethods

\* Retry.is_retry for a response.
IsRetry(m, tot, r) ==
    /\ IsMethodRetryable(m)
    /\ \/ r.status \in StatusForcelist
       \/ (tot # 0 /\ r.retry_after /\ r.status \in RetryAfterStatusCodes)

\* Retry._is_connection_error / Retry._is_read_error
IsConnectionError(r) == r.kind \in {"ConnectTimeoutError", "NewConnectionError"}
IsReadError(r) == r.kind \in {"ReadTimeoutError", "ProtocolError"}

\* Retry.is_exhausted, with total the only counter that is set.
IsExhausted(tot) == tot < 0

Retrying(tot) == [act |-> "retry", total |-> tot, exc |-> "none", reason |-> "none"]
Returning(tot) == [act |-> "return", total |-> tot, exc |-> "none", reason |-> "none"]
Raising(tot, exc, reason) == [act |-> "raise", total |-> tot, exc |-> exc, reason |-> reason]

\* One pass of urlopen under the mounted Retry: what the transport does with
\* the result r of an attempt when tot retries are left.
Urlopen(m, tot, r) ==
    IF r.kind = "response"
    THEN IF IsRetry(m, tot, r)
         THEN IF IsExhausted(tot - 1)
              THEN Raising(tot - 1, "MaxRetryError", "ResponseError")
              ELSE Retrying(tot - 1)
         ELSE Returning(tot)
    ELSE IF IsReadError(r) /\ ~IsMethodRetryable(m)
         THEN Raising(tot - 1, r.kind, "none")
         ELSE IF IsExhausted(tot - 1)
              THEN Raising(tot - 1, "MaxRetryError", r.kind)
              ELSE Retrying(tot - 1)

\* HTTPAdapter.send: the requests exception a urllib3 error leaves as.
AdapterSend(exc, reason) ==
    IF exc = "MaxRetryError"
    THEN CASE reason = "ConnectTimeoutError" -> "ConnectTimeout"
           [] reason = "ResponseError" -> "RetryError"
           [] OTHER -> "ConnectionError"
    ELSE CASE exc = "ReadTimeoutError" -> "ReadTimeout"
           [] OTHER -> "ConnectionError"

\* requests.exceptions: the classes the two except clauses of request() match.
IsTimeout(e) == e \in {"ConnectTimeout", "ReadTimeout"}
IsRequestsConnectionError(e) == e \in {"ConnectionError", "ConnectTimeout"}

----------------------------------------------------------------------------
(* Outcomes of a call *)

NoOutcome == [type |-> "none", msg |-> "none"]
Returned == [type |-> "response", msg |-> "none"]
Raised(type, msg) == [type |-> type, msg |-> msg]

\* CycleTLSClient._handle_response; raise_for_status raises for 400..599.
HandleResponse(r) ==
    IF r.status >= 400 /\ r.status < 600
    THEN IF r.status = 400
         THEN IF r.invalid_marker
              THEN Raised("CycleTLSInvalidProfileError", "Invalid browser profile")
              ELSE IF r.timeout_marker
                   THEN Raised("CycleTLSTimeoutError", "Request timeout")
                   ELSE Raised("CycleTLSError", "Bad request")
         ELSE IF r.status = 502
              THEN Raised("CycleTLSError", "Upstream request failed")
              ELSE Raised("CycleTLSError", "HTTP")
    ELSE Returned

\* The except clauses of CycleTLSClient.request, in their order; an exception
\* neither matches leaves request() as it is.
RequestExcept(e) ==
    IF IsTimeout(e) THEN Raised("CycleTLSTimeoutError", "Request timed out")
    ELSE IF IsRequestsConnectionError(e) THEN Raised("CycleTLSError", "Connection error")
    ELSE Raised(e, "none")

----------------------------------------------------------------------------
(* CycleTLSClient.request *)

\* A transport call given the declared timeout and no buffer.
TransportTimeoutNoBuffer(cfg) == cfg.timeout

\* timeout=config.timeout + 5 in CycleTLSClient.request
TransportTimeout(cfg) == cfg.timeout + TimeoutBuffer

\* aiohttp.ClientTimeout(total=config.timeout + 5) in AsyncCycleTLSClient.request
AsyncTransportTimeout(cfg) == cfg.timeout + TimeoutBuffer

NoConfig ==
    [url |-> None, profile |-> None, session_id |-> None, upstream_proxy |-> None,
     timeout |-> 0]

\* request() up to the call of session.request: the config, the headers and
\* the transport timeout are fixed, and the mounted Retry starts afresh.
RequestCall(o, m, url, profile, session_id, timeout, headers) ==
    /\ pc = "idle"
    /\ LET cfg == ProxyConfig(url, profile, session_id, timeout, DefaultTimeout)
       IN  /\ config' = cfg
           /\ wire' = MakeHeaders(cfg, DefaultTimeout, headers)
           /\ transport_timeout' = TransportTimeout(cfg)
    /\ client' = "sync"
    /\ op' = o
    /\ timeout_arg' = timeout
    /\ method' = m
    /\ extra' = headers
    /\ total' = MaxRetries
    /\ attempts' = 0
    /\ last' = NoResult
    /\ all_status' = TRUE
    /\ outcome' = NoOutcome
    /\ pc' = "sending"
    /\ UNCHANGED <<aio_session, batchvars, handle, profiles>>

\* CycleTLSClient.request called by the user of the client.
SyncRequest(m, url, profile, session_id, timeout, headers) ==
    RequestCall("request", m, url, profile, session_id, timeout, headers)

\* One transport attempt inside session.request and what follows it: another
\* attempt, or the end of request() through _handle_response or an except clause.
SyncAttempt(r) ==
    /\ client = "sync"
    /\ op \in {"request", "session"}
    /\ pc = "sending"
    /\ LET step == Urlopen(method, total, r)
       IN  /\ total' = step.total
           /\ pc' = IF step.act = "retry" THEN "sending" ELSE "done"
           /\ outcome' = CASE step.act = "retry" -> outcome
                           [] step.act = "return" -> HandleResponse(r)
                           [] step.act = "raise" -> RequestExcept(AdapterSend(step.exc, step.reason))
    /\ attempts' = attempts + 1
    /\ last' = r
    /\ all_status' = (all_status /\ r.kind = "response" /\ r.status \in StatusForcelist)
    /\ UNCHANGED <<client, method, config, extra, wire, transport_timeout, aio_session,
                   timeout_arg, batchvars, auxvars>>

\* CycleTLSClient.request run to its end against a proxy that answers every
\* attempt with the same result r.
RECURSIVE SyncOutcomeUnder(_, _, _)
SyncOutcomeUnder(m, tot, r) ==
    LET step == Urlopen(m, tot, r)
    IN  CASE step.act = "retry" -> SyncOutcomeUnder(m, step.total, r)
          [] step.act = "return" -> HandleResponse(r)
          [] step.act = "raise" -> RequestExcept(AdapterSend(step.exc, step.reason))

----------------------------------------------------------------------------
(* AsyncCycleTLSClient *)

\* __aenter__
AsyncEnter ==
    /\ pc \in {"idle", "done"}
    /\ aio_session' = "open"
    /\ UNCHANGED <<client, method, pc, config, extra, wire, transport_timeout, total,
                   attempts, last, all_status, outcome, timeout_arg, batchvars, auxvars>>

\* __aexit__
AsyncExit ==
    /\ pc \in {"idle", "done"}
    /\ aio_session # "none"
    /\ aio_session' = "closed"
    /\ UNCHANGED <<client, method, pc, config, extra, wire, transport_timeout, total,
                   attempts, last, all_status, outcome, timeout_arg, batchvars, auxvars>>

\* The try block of AsyncCycleTLSClient.request: the response is returned
\* whatever its status, asyncio.TimeoutError and aiohttp.ClientError are caught.
AsyncOutcome(r) ==
    IF r.kind = "response" THEN Returned
    ELSE IF r.kind \in {"ConnectTimeoutError", "ReadTimeoutError"}
         THEN Raised("CycleTLSTimeoutError", "Request timed out")
         ELSE Raised("CycleTLSError", "Request error")

\* AsyncCycleTLSClient.request, whole: one transport attempt, no retry policy.
AsyncRequest(m, url, profile, session_id, timeout, headers, r) ==
    /\ pc = "idle"
    /\ client' = "async"
    /\ op' = "request"
    /\ timeout_arg' = timeout
    /\ method' = m
    /\ extra' = headers
    /\ total' = 0
    /\ all_status' = TRUE
    /\ pc' = "done"
    /\ IF aio_session # "open"
       THEN /\ config' = NoConfig
            /\ wire' = NoHeaders
            /\ transport_timeout' = 0
            /\ attempts' = 0
            /\ last' = NoResult
            /\ outcome' = Raised("RuntimeError", "none")
       ELSE LET cfg == ProxyConfig(url, profile, session_id, timeout, DefaultTimeout)
            IN  /\ config' = cfg
                /\ wire' = AsyncMakeHeaders(cfg, DefaultTimeout, headers)
                /\ transport_timeout' = AsyncTransportTimeout(cfg)
                /\ attempts' = 1
                /\ last' = r
                /\ outcome' = AsyncOutcome(r)
    /\ UNCHANGED <<aio_session, batchvars, handle, profiles>>

\* The caller has the outcome of its call and goes on to its next one, as the
\* loop over profiles in run_basic_examples does with one client.
NextCall ==
    /\ pc = "done"
    /\ client' = "none"
    /\ op' = "none"
    /\ timeout_arg' = NoneInt
    /\ method' = "GET"
    /\ pc' = "idle"
    /\ config' = NoConfig
    /\ extra' = NoHeaders
    /\ wire' = NoHeaders
    /\ transport_timeout' = 0
    /\ total' = 0
    /\ attempts' = 0
    /\ last' = NoResult
    /\ all_status' = TRUE
    /\ outcome' = NoOutcome
    /\ profiles' = <<>>
    /\ UNCHANGED <<aio_session, batchvars, handle>>

----------------------------------------------------------------------------
(* CycleTLSClient.session and SessionContext *)

\* uuid.uuid4().hex[:8] behind the prefix: an identifier the caller did not choose.
GeneratedIds == {"python-session-0a1b2c3d"}

SessionIdInputs == {None, "login-demo", ""}
SessionMethods == {"GET", "POST"}
SessionKwInputs == {None, "other-session"}
SessionTimeoutInputs == {NoneInt, SomeInt(10)}
SessionHeaderInputs == {NoHeaders, [h \in {"X-SESSION-ID"} |-> "other-session"]}

\* client.session(session_id): the handle keeps the identifier it is given, or
\* a generated one when it is given None.
OpenSession(session_id) ==
    /\ pc = "idle"
    /\ handle = None
    /\ IF session_id = None
       THEN \E g \in GeneratedIds : handle' = g
       ELSE handle' = session_id
    /\ UNCHANGED <<reqvars, batchvars, op, profiles>>

\* SessionContext.__exit__ does nothing; the with block is left.
CloseSession ==
    /\ pc = "idle"
    /\ handle # None
    /\ handle' = None
    /\ UNCHANGED <<reqvars, batchvars, op, profiles>>

\* kwargs['session_id'] = self.session_id
SessionKwargs(kw_session_id, self_session_id) == self_session_id

\* SessionContext.request
SessionRequest(m, url, profile, kw_session_id, timeout, headers) ==
    /\ handle # None
    /\ RequestCall("session", m, url, profile, SessionKwargs(kw_session_id, handle),
                   timeout, headers)

----------------------------------------------------------------------------
(* CycleTLSClient.health_check and get_available_profiles *)

HealthTimeout == 5

\* Whether response.json() can succeed on the response: a 304 carries no body.
HasBody(r) == r.kind = "response" /\ r.status # 304

HealthFailed == Raised("CycleTLSError", "Health check failed")

\* The try block of health_check once session.get has returned r:
\* raise_for_status, then response.json(); every exception is wrapped.
HealthOutcome(r, json_ok) ==
    IF r.status >= 400 /\ r.status < 600
    THEN HealthFailed
    ELSE IF HasBody(r) /\ json_ok THEN Returned ELSE HealthFailed

\* self.session.get(f"{proxy_url}/health", timeout=5) is about to be sent, on
\* the session that carries the mounted Retry.
HealthCall(o) ==
    /\ pc = "idle"
    /\ client' = "health"
    /\ op' = o
    /\ timeout_arg' = NoneInt
    /\ method' = "GET"
    /\ config' = NoConfig
    /\ extra' = NoHeaders
    /\ wire' = NoHeaders
    /\ transport_timeout' = HealthTimeout
    /\ total' = MaxRetries
    /\ attempts' = 0
    /\ last' = NoResult
    /\ all_status' = TRUE
    /\ outcome' = NoOutcome
    /\ pc' = "sending"
    /\ profiles' = <<>>
    /\ UNCHANGED <<aio_session, batchvars, handle>>

\* health_check called by the user of the client.
HealthStart == HealthCall("health")

\* One transport attempt of the health check's GET and what follows it.
HealthAttempt(r, json_ok) ==
    /\ client = "health"
    /\ op = "health"
    /\ pc = "sending"
    /\ LET step == Urlopen("GET", total, r)
       IN  /\ total' = step.total
           /\ pc' = IF step.act = "retry" THEN "sending" ELSE "done"
           /\ outcome' = CASE step.act = "retry" -> outcome
                           [] step.act = "return" -> HealthOutcome(r, json_ok)
                           [] step.act = "raise" -> HealthFailed
    /\ attempts' = attempts + 1
    /\ last' = r
    /\ all_status' = (all_status /\ r.kind = "response" /\ r.status \in StatusForcelist)
    /\ UNCHANGED <<client, method, config, extra, wire, transport_timeout, aio_session,
                   timeout_arg, batchvars, auxvars>>

\* [profile.value for profile in BrowserProfile]
FallbackProfiles ==
    <<"chrome", "chrome_windows", "firefox", "firefox_windows", "safari",
      "safari_ios", "edge", "okhttp", "chrome_legacy_tls">>

\* What follows 'Available profiles: ' in the proxy's error text, as the items
\* between the commas, each with or without blanks around its name; <<>> when
\* the text has no such part.
ListingInputs ==
    {<<>>,
     <<[pad |-> FALSE, name |-> "chrome"], [pad |-> TRUE, name |-> "firefox"],
       [pad |-> TRUE, name |-> "okhttp"]>>}

\* [p.strip() for p in match.group(1).split(',')]
ParseListing(listing) == [i \in DOMAIN listing |-> listing[i].name]

ProbeUrl == "https://httpbin.org/get"
ProbeProfile == StrProfile("invalid-profile-test")

\* get_available_profiles called by the user of the client: it starts with
\* health = self.health_check(), outside its try block.
ProfilesStart == HealthCall("profiles")

\* One transport attempt of that health check.  A failed health check leaves
\* get_available_profiles; a passed one is followed by the probe request.
ProfilesHealthAttempt(r, json_ok) ==
    /\ client = "health"
    /\ op = "profiles"
    /\ pc = "sending"
    /\ LET step == Urlopen("GET", total, r)
           out == CASE step.act = "retry" -> outcome
                    [] step.act = "return" -> HealthOutcome(r, json_ok)
                    [] step.act = "raise" -> HealthFailed
           cfg == ProxyConfig(ProbeUrl, ProbeProfile, None, NoneInt, DefaultTimeout)
       IN  IF step.act # "retry" /\ out = Returned
           THEN /\ client' = "sync"
                /\ config' = cfg
                /\ wire' = MakeHeaders(cfg, DefaultTimeout, NoHeaders)
                /\ transport_timeout' = TransportTimeout(cfg)
                /\ total' = MaxRetries
                /\ attempts' = 0
                /\ last' = NoResult
                /\ all_status' = TRUE
                /\ outcome' = NoOutcome
                /\ pc' = "sending"
           ELSE /\ total' = step.total
                /\ pc' = IF step.act = "retry" THEN "sending" ELSE "done"
                /\ outcome' = out
                /\ attempts' = attempts + 1
                /\ last' = r
                /\ all_status' = (all_status /\ r.kind = "response"
                                    /\ r.status \in StatusForcelist)
                /\ UNCHANGED <<client, config, wire, transport_timeout>>
    /\ UNCHANGED <<method, extra, aio_session, timeout_arg, batchvars, auxvars>>

\* The end of get_available_profiles once the probe has ended in out: only
\* CycleTLSInvalidProfileError is caught.
ProfilesResult(out, listing) ==
    IF out.type = "CycleTLSInvalidProfileError"
    THEN IF listing # <<>>
         THEN [outcome |-> Returned, profiles |-> ParseListing(listing)]
         ELSE [outcome |-> Returned, profiles |-> FallbackProfiles]
    ELSE IF out = Returned
         THEN [outcome |-> Returned, profiles |-> FallbackProfiles]
         ELSE [outcome |-> out, profiles |-> <<>>]

\* One transport attempt of the probe self.get(..., profile="invalid-profile-test")
\* and what follows it.
ProbeAttempt(r, listing) ==
    /\ client = "sync"
    /\ op = "profiles"
    /\ pc = "sending"
    /\ LET step == Urlopen("GET", total, r)
           out == CASE step.act = "retry" -> outcome
                    [] step.act = "return" -> HandleResponse(r)
                    [] step.act = "raise" ->
                         RequestExcept(AdapterSend(step.exc, step.reason))
           res == ProfilesResult(out, listing)
       IN  /\ total' = step.total
           /\ pc' = IF step.act = "retry" THEN "sending" ELSE "done"
           /\ outcome' = IF step.act = "retry" THEN outcome ELSE res.outcome
           /\ profiles' = IF step.act = "retry" THEN profiles ELSE res.profiles
    /\ attempts' = attempts + 1
    /\ last' = r
    /\ all_status' = (all_status /\ r.kind = "response" /\ r.status \in StatusForcelist)
    /\ UNCHANGED <<client, method, config, extra, wire, transport_timeout, aio_session,
                   timeout_arg, batchvars, handle, op>>

----------------------------------------------------------------------------
(* The two clients, one request at a time *)

BatchIdle ==
    /\ tstate = <<>> /\ tresult = <<>> /\ results = <<>> /\ printed = <<>>
    /\ bphase = "off"
    /\ ustate = <<>> /\ uoutcome = <<>> /\ aorder = <<>> /\ gather = "none"
    /\ responses = <<>>

Init ==
    /\ client = "none"
    /\ method = "GET"
    /\ pc = "idle"
    /\ config = NoConfig
    /\ extra = NoHeaders
    /\ wire = NoHeaders
    /\ transport_timeout = 0
    /\ total = 0
    /\ attempts = 0
    /\ last = NoResult
    /\ all_status = TRUE
    /\ outcome = NoOutcome
    /\ aio_session = "none"
    /\ timeout_arg = NoneInt
    /\ handle = None
    /\ op = "none"
    /\ profiles = <<>>
    /\ BatchIdle

Next ==
    \/ /\ pc = "idle"
       /\ \E m \in Methods, url \in UrlInputs, profile \in ProfileInputs,
             session_id \in SessionInputs, timeout \in TimeoutInputs,
             headers \in HeaderInputs :
             SyncRequest(m, url, profile, session_id, timeout, headers)
    \/ /\ pc = "sending"
       /\ \E r \in ProxyResults : SyncAttempt(r)
    \/ NextCall
    \/ AsyncEnter
    \/ AsyncExit
    \/ /\ pc = "idle"
       /\ \E m \in Methods, url \in UrlInputs, profile \in ProfileInputs,
             session_id \in SessionInputs, timeout \in TimeoutInputs,
             headers \in HeaderInputs, r \in ProxyResults :
             AsyncRequest(m, url, profile, session_id, timeout, headers, r)

Spec == Init /\ [][Next]_vars

\* One synchronous client: session handles, health checks and profile queries.
ClientNext ==
    \/ \E session_id \in SessionIdInputs : OpenSession(session_id)
    \/ CloseSession
    \/ /\ pc = "idle"
       /\ \E m \in SessionMethods, url \in UrlInputs, kw \in SessionKwInputs,
             timeout \in SessionTimeoutInputs, headers \in SessionHeaderInputs :
             SessionRequest(m, url, StrProfile("firefox"), kw, timeout, headers)
    \/ /\ pc = "sending"
       /\ \E r \in ProxyResults : SyncAttempt(r)
    \/ HealthStart
    \/ \E r \in ProxyResults, json_ok \in BOOLEAN : HealthAttempt(r, json_ok)
    \/ ProfilesStart
    \/ \E r \in ProxyResults, json_ok \in BOOLEAN : ProfilesHealthAttempt(r, json_ok)
    \/ \E r \in ProxyResults, listing \in ListingInputs : ProbeAttempt(r, listing)
    \/ NextCall

ClientSpec == Init /\ [][ClientNext]_vars

----------------------------------------------------------------------------
(* run_concurrent_examples: ten requests on a ThreadPoolExecutor.  The     *)
(* model runs NumRequests of them.                                         *)

NumRequests == 3
Units == 1..NumRequests

\* What a request of a batch can end in.
BatchOutcomes == {Returned, Raised("CycleTLSTimeoutError", "Request timed out")}
Cancelled == Raised("CancelledError", "none")

\* make_request(request_id): the tuple it returns; every exception of
\* client.get becomes an "ERROR" tuple.
MakeRequest(request_id, out) ==
    IF out.type = "response"
    THEN [request_id |-> request_id, status |-> "200"]
    ELSE [request_id |-> request_id, status |-> "ERROR"]

\* Tuple order of the result tuples: the request ids differ, so the first
\* component decides.
TupleLess(a, b) == a.request_id < b.request_id

RECURSIVE Insert(_, _)
Insert(x, seq) ==
    IF seq = <<>> THEN <<x>>
    ELSE IF TupleLess(x, Head(seq)) THEN <<x>> \o seq
    ELSE <<Head(seq)>> \o Insert(x, Tail(seq))

\* The list left in the order as_completed gave it.
Unsorted(seq) == seq

\* sorted(results)
RECURSIVE Sorted(_)
Sorted(seq) == IF seq = <<>> THEN <<>> ELSE Insert(Head(seq), Sorted(Tail(seq)))

\* executor.submit(make_request, i) for every i: all futures start.
Submit ==
    /\ bphase = "start"
    /\ bphase' = "pool"
    /\ tstate' = [i \in Units |-> "running"]
    /\ tresult' = [i \in Units |-> MakeRequest(i - 1, NoOutcome)]
    /\ UNCHANGED <<results, printed, ustate, uoutcome, aorder, gather, responses, reqvars, auxvars>>

\* A worker thread returns from make_request(i - 1).
WorkerFinish(i, out) ==
    /\ bphase = "pool"
    /\ tstate[i] = "running"
    /\ tstate' = [tstate EXCEPT ![i] = "finished"]
    /\ tresult' = [tresult EXCEPT ![i] = MakeRequest(i - 1, out)]
    /\ UNCHANGED <<bphase, results, printed, ustate, uoutcome, aorder, gather, responses,
                   reqvars, auxvars>>

\* as_completed yields a finished future and its result is appended; after
\* the last one the list is complete and sorted(results) is reported.
Collect(i) ==
    /\ bphase = "pool"
    /\ tstate[i] = "finished"
    /\ tstate' = [tstate EXCEPT ![i] = "collected"]
    /\ results' = Append(results, tresult[i])
    /\ IF \A j \in Units : tstate'[j] = "collected"
       THEN /\ printed' = Sorted(results')
            /\ bphase' = "pool_done"
       ELSE UNCHANGED <<printed, bphase>>
    /\ UNCHANGED <<tresult, ustate, uoutcome, aorder, gather, responses, reqvars, auxvars>>

----------------------------------------------------------------------------
(* run_async_examples: five requests joined with asyncio.gather inside     *)
(* `async with AsyncCycleTLSClient()`.  The model runs NumRequests.        *)

\* The tasks are created and gather is awaited.
AsyncDispatch ==
    /\ bphase = "pool_done"
    /\ bphase' = "gathering"
    /\ aio_session' = "open"
    /\ ustate' = [i \in Units |-> "pending"]
    /\ uoutcome' = [i \in Units |-> NoOutcome]
    /\ aorder' = <<>>
    /\ gather' = "waiting"
    /\ responses' = <<>>
    /\ UNCHANGED <<tstate, tresult, results, printed, client, method, pc, config, extra,
                   wire, transport_timeout, total, attempts, last, all_status, outcome, timeout_arg, auxvars>>

\* A unit ends.  gather (return_exceptions left False) hands the first
\* exception of a unit to its awaiter at once, and the list of results, in
\* the order of its arguments, when every unit has returned.
UnitFinish(i, out) ==
    /\ bphase = "gathering"
    /\ ustate[i] = "pending"
    /\ ustate' = [ustate EXCEPT ![i] = "done"]
    /\ uoutcome' = [uoutcome EXCEPT ![i] = out]
    /\ aorder' = Append(aorder, i)
    /\ IF gather # "waiting"
       THEN UNCHANGED <<gather, responses>>
       ELSE IF out.type # "response"
            THEN /\ gather' = "raised"
                 /\ UNCHANGED responses
            ELSE IF \A j \in Units : ustate'[j] = "done"
                 THEN /\ gather' = "returned"
                      /\ responses' = [j \in Units |-> uoutcome'[j]]
                 ELSE UNCHANGED <<gather, responses>>
    /\ UNCHANGED <<bphase, aio_session, tstate, tresult, results, printed, client, method, pc,
                   config, extra, wire, transport_timeout, total, attempts, last, all_status,
                   outcome, timeout_arg, auxvars>>

\* The task awaiting gather is cancelled (asyncio.run on KeyboardInterrupt):
\* gather cancels every unit still pending and raises CancelledError, which
\* `except Exception` does not catch.
CancelBatch ==
    /\ bphase = "gathering"
    /\ gather = "waiting"
    /\ gather' = "cancelled"
    /\ ustate' = [i \in Units |-> "done"]
    /\ uoutcome' = [i \in Units |-> IF ustate[i] = "pending" THEN Cancelled ELSE uoutcome[i]]
    /\ UNCHANGED <<responses, aorder, bphase, aio_session, tstate, tresult, results, printed,
                   client, method, pc, config, extra, wire, transport_timeout, total,
                   attempts, last, all_status, outcome, timeout_arg, auxvars>>

\* __aexit__ once the body of the `async with` is left: the session is
\* closed under the units still pending, which end in a client error or are
\* cancelled when the loop is torn down.
ScopeExit(abort) ==
    /\ bphase = "gathering"
    /\ gather \in {"returned", "raised", "cancelled"}
    /\ bphase' = "async_done"
    /\ aio_session' = "closed"
    /\ ustate' = [i \in Units |-> "done"]
    /\ uoutcome' = [i \in Units |-> IF ustate[i] = "pending" THEN abort ELSE uoutcome[i]]
    /\ UNCHANGED <<gather, responses, aorder, tstate, tresult, results, printed, client,
                   method, pc, config, extra, wire, transport_timeout, total, attempts, last,
                   all_status, outcome, timeout_arg, auxvars>>

BatchInit ==
    /\ client = "none"
    /\ method = "GET"
    /\ pc = "idle"
    /\ config = NoConfig
    /\ extra = NoHeaders
    /\ wire = NoHeaders
    /\ transport_timeout = 0
    /\ total = 0
    /\ attempts = 0
    /\ last = NoResult
    /\ all_status = TRUE
    /\ outcome = NoOutcome
    /\ aio_session = "none"
    /\ timeout_arg = NoneInt
    /\ handle = None
    /\ op = "none"
    /\ profiles = <<>>
    /\ tstate = <<>> /\ tresult = <<>> /\ results = <<>> /\ printed = <<>>
    /\ bphase = "start"
    /\ ustate = <<>> /\ uoutcome = <<>> /\ aorder = <<>> /\ gather = "none"
    /\ responses = <<>>

BatchNext ==
    \/ Submit
    \/ \E i \in Units, out \in BatchOutcomes : WorkerFinish(i, out)
    \/ \E i \in Units : Collect(i)
    \/ AsyncDispatch
    \/ \E i \in Units, out \in BatchOutcomes : UnitFinish(i, out)
    \/ CancelBatch
    \/ \E abort \in {Raised("CycleTLSError", "Request error"), Cancelled} : ScopeExit(abort)

BatchSpec == BatchInit /\ [][BatchNext]_vars

----------------------------------------------------------------------------
(* Properties *)

TypedErrors == {"CycleTLSError", "CycleTLSTimeoutError", "CycleTLSInvalidProfileError"}
IsStatus(r, statuses) == r.kind = "response" /\ r.status \in statuses

\* A config the request builder of the specification accepts.
ValidConfig(cfg) ==
    /\ cfg.profile \in BrowserProfile
    /\ cfg.url # ""
    /\ cfg.timeout > 0

\* C1: whenever a wire request has been sent for a valid config, by either client and whatever
\* the caller's extra headers, its X-URL header is the target URL of the
\* request and its X-IDENTIFIER header is the profile of the request.
C1_RoutingHeadersWin ==
    (attempts >= 1 /\ ValidConfig(config)) =>
        /\ wire["X-URL"] = config.url
        /\ wire["X-IDENTIFIER"] = config.profile

\* C2: CycleTLSClient.request makes a transport call only for a config that
\* passes validation; a call with an invalid config ends in an error without
\* any transport attempt.
C2_ValidationPrecedesNetwork ==
    (client = "sync" /\ ~ValidConfig(config)) =>
        /\ attempts = 0
        /\ pc = "done" => outcome.type \in TypedErrors

\* C3: a valid GET or HEAD request whose every attempt is answered with a status of
\* the retryable set is attempted at most MaxRetries times, and ends after
\* exactly MaxRetries attempts in a typed error.
C3_RetryCeiling ==
    (client = "sync" /\ ValidConfig(config) /\ method \in {"GET", "HEAD"}
        /\ attempts >= 1 /\ all_status) =>
        /\ attempts <= MaxRetries
        /\ pc = "done" => (attempts = MaxRetries /\ outcome.type \in TypedErrors)

\* C4: an attempt of CycleTLSClient.request (valid config) answered with status 502 is the
\* last attempt of its request, and the caller gets the "Upstream request
\* failed" error.
C4_BadGatewayIsFatal ==
    (client = "sync" /\ ValidConfig(config) /\ IsStatus(last, {502})) =>
        /\ pc = "done"
        /\ outcome = Raised("CycleTLSError", "Upstream request failed")

\* The retry asymmetry for the methods in ms: an attempt is followed by
\* another only when it ended in a connection-level or timeout failure, and an
\* attempt answered with a 5xx status is the last of its request.
RetryAsymmetry(ms) ==
    (client = "sync" /\ method \in ms /\ attempts >= 1) =>
        /\ pc = "sending" => last.kind \in {"ConnectTimeoutError", "NewConnectionError",
                                            "ReadTimeoutError", "ProtocolError"}
        /\ IsStatus(last, {500, 502, 503, 504}) => pc = "done"

C6_EveryFailureTyped ==
    (client = "sync" /\ ValidConfig(config) /\ pc = "done") =>
        outcome.type \in {"response"} \cup TypedErrors

\* C7: AsyncCycleTLSClient.request, for a valid config and the response the
\* proxy gave it, ends in the kind of outcome CycleTLSClient.request ends in
\* for the same method against a proxy answering the same way.
C7_AsyncMatchesSync ==
    (client = "async" /\ pc = "done" /\ attempts = 1 /\ ValidConfig(config)
        /\ last.kind = "response") =>
        outcome.type = SyncOutcomeUnder(method, MaxRetries, last).type

\* C8: the sequence the thread-pool dispatch reports holds, at position i, the
\* outcome of the i-th submitted request, and so does the list gather returns,
\* whatever the order in which the requests finished.
C8_InputOrder ==
    /\ bphase \in {"pool_done", "gathering", "async_done"} =>
          /\ Len(printed) = NumRequests
          /\ \A i \in Units : printed[i] = tresult[i]
    /\ gather = "returned" =>
          /\ Len(responses) = NumRequests
          /\ \A i \in Units : responses[i] = uoutcome[i]

\* Both dispatches have returned their sequences although, in both, the last
\* request submitted was the first to finish.
C8_Witness ==
    /\ gather = "returned"
    /\ Len(results) = NumRequests /\ results[1].request_id = NumRequests - 1
    /\ printed # results
    /\ aorder[1] = NumRequests

\* C9: a batch with a failed request still gives its caller one outcome per
\* request: the thread-pool dispatch reports NumRequests tuples, and the
\* gather dispatch, once its await has ended, has every unit terminal and a
\* list of NumRequests outcomes, the i-th being the outcome of unit i.
C9_FailureIsolation ==
    /\ bphase \in {"pool_done", "gathering", "async_done"} =>
          /\ Len(printed) = NumRequests
          /\ \A i \in Units : printed[i] = tresult[i]
    /\ gather \in {"returned", "raised"} =>
          /\ \A i \in Units : ustate[i] = "done"
          /\ Len(responses) = NumRequests
          /\ \A i \in Units : responses[i] = uoutcome[i]

\* C10: after the gather batch is cancelled, or its scope closed, with some
\* unit already terminal, every unit is terminal, the caller holds NumRequests
\* results, and the i-th is the original outcome of unit i if it had ended
\* and Cancelled if it was pending.
C10_CancelDropsNothing ==
    ((gather = "cancelled" \/ bphase = "async_done") /\ aorder # <<>>) =>
        /\ \A i \in Units : ustate[i] = "done"
        /\ Len(responses) = NumRequests
        /\ \A i \in Units : responses[i] = uoutcome[i]
        /\ \A i \in Units : uoutcome[i] \in BatchOutcomes \cup {Cancelled}

\* The timeout the caller declared: its timeout= argument, or the default of
\* the client when it gave none.
DeclaredTimeout == IF timeout_arg.some THEN timeout_arg.v ELSE DefaultTimeout

\* C12: for every request of either client with a positive declared timeout
\* t, the timeout handed to the transport is t + 5, and so exceeds t.
C12_TransportTimeout ==
    (client \in {"sync", "async"} /\ attempts >= 1 /\ DeclaredTimeout > 0) =>
        /\ transport_timeout = DeclaredTimeout + 5
        /\ transport_timeout > DeclaredTimeout

\* A request of the sync client with timeout=10 has reached the transport
\* with a transport timeout of 15.
C12_Witness ==
    /\ client = "sync" /\ attempts >= 1
    /\ timeout_arg = SomeInt(10)
    /\ transport_timeout = 15

\* C13: the wire request of a valid config carries X-TIMEOUT exactly when the
\* declared timeout differs from the default of the client, its value is then
\* the declared timeout, and it is absent when the caller gave no timeout.
C13_TimeoutHeader ==
    (client \in {"sync", "async"} /\ attempts >= 1 /\ ValidConfig(config)) =>
        /\ ("X-TIMEOUT" \in DOMAIN wire) <=> (config.timeout # DefaultTimeout)
        /\ ("X-TIMEOUT" \in DOMAIN wire) => wire["X-TIMEOUT"] = Str(config.timeout)
        /\ ~timeout_arg.some => "X-TIMEOUT" \notin DOMAIN wire

\* The outcome the classifier table of the specification gives a response.
TableAgrees(r, out) ==
    IF r.status >= 200 /\ r.status < 300 THEN out = Returned
    ELSE IF r.status = 400 /\ r.invalid_marker THEN out.type = "CycleTLSInvalidProfileError"
    ELSE IF r.status = 400 /\ r.timeout_marker THEN out.type = "CycleTLSTimeoutError"
    ELSE IF r.status = 400 THEN out = Raised("CycleTLSError", "Bad request")
    ELSE out.type \in TypedErrors

\* C16: whenever the transport handed a response (to a request with a valid
\* config) to _handle_response, what
\* request() gave its caller is what the classifier table gives that
\* response: success for 2xx only, an error for every other status.
C16_ClassifierTable ==
    (client = "sync" /\ op = "request" /\ pc = "done" /\ ValidConfig(config)
        /\ last.kind = "response" /\ outcome.type # "RetryError") =>
        TableAgrees(last, outcome)

\* C11: every request made through a session handle has reached the transport
\* with X-SESSION-ID equal to the identifier the handle was created with,
\* whatever keyword arguments the caller passed.
C11_SessionAffinity ==
    (op = "session" /\ attempts >= 1 /\ Truthy(handle) /\ ValidConfig(config)) =>
        /\ "X-SESSION-ID" \in DOMAIN wire
        /\ wire["X-SESSION-ID"] = handle

\* C14: a health check makes exactly one transport attempt, ends in an error
\* when that attempt fails or is answered with a status outside 2xx, and
\* returns the payload only for a 2xx answer.
C14_HealthCheckOneAttempt ==
    op = "health" =>
        /\ attempts <= 1
        /\ pc = "done" =>
             /\ attempts = 1
             /\ (outcome = Returned) => IsStatus(last, 200..299)
             /\ ~IsStatus(last, 200..299) => outcome.type \in TypedErrors

\* C15: get_available_profiles, once its health check has passed and its probe
\* has been sent, always ends by returning a list: the proxy's list when the
\* probe's invalid-profile error carries one, the fallback list in every other
\* case.
C15_ProfilesAlwaysAList ==
    (op = "profiles" /\ client = "sync" /\ pc = "done") =>
        /\ outcome = Returned
        /\ profiles # <<>>
        /\ (last.kind # "response" \/ ~(last.status = 400 /\ last.invalid_marker)) =>
             profiles = FallbackProfiles

====
